---- MODULE Spec2Model ----
(***************************************************************************)
(* Athena: the SOS liquidation protocol.                                   *)
(*                                                                         *)
(*   FraxService   (src/lib/frax-service.ts)   the ledger client           *)
(*   AthenaAgent   (src/unnamed/part_006)      the orchestrator            *)
(*   useAthenaAgent(src/unnamed/part_007)      the reactive binding layer  *)
(*   PanicButton   (src/components/PanicButton.tsx) the panic UI           *)
(*   App           (src/lib/frax-service.ts, 593-690) the commands         *)
(*   AthenaPool    (src/unnamed/part_000)      the donation pool contract  *)
(*                                                                         *)
(* JavaScript runs the handlers on one event loop: code between two awaits *)
(* is one atomic step, and every await is a point where the other handlers *)
(* and the network may take steps.  Each async call is a frame holding its *)
(* position (pc) and its locals.                                           *)
(***************************************************************************)
EXTENDS Integers, Sequences, FiniteSets, TLC

VARIABLES
    chain,        \* the wallet's balances on the network
    isConnected,  \* FraxService.isConnected
    contracts,    \* FraxService.wallet / sFraxContract / fraxContract / usdcContract are set
    initPc,       \* position of FraxService.initializeConnection
    gvs,          \* the getVaultState calls in flight, by caller
    sos,          \* the FraxService.triggerSOS call
    state,        \* AthenaAgent.state (AgentState)
    storage,      \* localStorage['athena_agent_state']
    agentSos,     \* the AthenaAgent.triggerSOS call (through the hook)
    perceive,     \* the perceiveFinancialState calls of the binding layer
    sec,          \* the AthenaAgent.secureEvidence call
    opt,          \* the AthenaAgent.optimizeYield call
    ui,           \* the PanicButton component
    hook,         \* one useAthenaAgent instance: isLoading and its calls in flight
    flashMsg,     \* App's flash message over the calculator
    pool          \* the AthenaPool contract (src/unnamed/part_000)

vars == <<chain, isConnected, contracts, initPc, gvs, sos, state, storage,
          agentSos, perceive, sec, opt, ui, hook, flashMsg, pool>>

viewVars == <<hook, flashMsg, pool>>

ledgerVars == <<isConnected, contracts, initPc>>
agentVars  == <<state, storage>>

----------------------------------------------------------------------------
(* Bounds *)

MaxShares   == 1     \* sFRAX shares the wallet may hold initially
MaxFrax     == 1     \* liquid FRAX the wallet may hold initially
MaxUsdc     == 1     \* USDC the wallet may hold initially
SharePrice  == 2     \* FRAX per sFRAX share answered by convertToAssets
MaxRefresh  == 1     \* concurrent perceiveFinancialState calls of the binding layer
MaxEvidence == 1     \* evidence records kept in the model
MaxCaseId   == 2     \* distinct case identifiers
MaxDependents == 0   \* dependents passed to calculateFreedomBudget
MaxTime     == 1     \* readings of Date.now() seen by secureEvidence
MaxSubmissions == 2  \* evidence records kept when the submissions are studied
MaxPlanDependents == 2  \* dependents when the budget formula is studied
MaxEther    == 3     \* ether sent to the AthenaPool contract over its life

Last(s) == s[Len(s)]

----------------------------------------------------------------------------
(* Types of src/lib/frax-service.ts *)

FallbackAddress == "0x742d35Cc"
Addresses == {"0xSAFE", FallbackAddress}

\* VaultState | null : the absent snapshot is NullVault
NullVault ==
    [sFraxBalance |-> 0, sFraxValueInFrax |-> 0, fraxBalance |-> 0,
     usdcBalance |-> 0, totalValueUsd |-> 0, isOnline |-> FALSE,
     network |-> "null"]

\* the fallback as a demo vault that holds funds
getSimulatedVaultState_funded ==
    [sFraxBalance |-> 1, sFraxValueInFrax |-> 1, fraxBalance |-> 1,
     usdcBalance |-> 0, totalValueUsd |-> 2, isOnline |-> FALSE,
     network |-> "Not Connected"]

getSimulatedVaultState ==
    [sFraxBalance |-> 0, sFraxValueInFrax |-> 0, fraxBalance |-> 0,
     usdcBalance |-> 0, totalValueUsd |-> 0, isOnline |-> FALSE,
     network |-> "Not Connected"]

\* the object returned by the live branch of getVaultState
LiveVaultState(bal, value) ==
    [sFraxBalance |-> bal.sFrax, sFraxValueInFrax |-> value,
     fraxBalance |-> bal.frax, usdcBalance |-> bal.usdc,
     totalValueUsd |-> value + bal.frax + bal.usdc, isOnline |-> TRUE,
     network |-> "Fraxtal"]

\* ERC-4626 convertToAssets of the vault contract
convertToAssets(shares) == shares * SharePrice

NoBalances == [sFrax |-> 0, frax |-> 0, usdc |-> 0]

\* transaction identifiers: a receipt hash of the chain, or a synthesized one
TxHash(kind)     == [kind |-> kind, demo |-> FALSE]
FakeTxHash(kind) == [kind |-> kind, demo |-> TRUE]

LogLine(kind)       == [kind |-> kind, text |-> ""]
ErrorLine(message)  == [kind |-> "ERROR", text |-> message]

NoResult ==
    [success |-> FALSE, liquidatedAmount |-> 0, transferredAmount |-> 0,
     destinationAddress |-> "null", txHashes |-> <<>>, logs |-> <<>>]

----------------------------------------------------------------------------
(* The event loop: a call that has resolved and whose awaiting caller has  *)
(* not run yet.  The caller's continuation is a microtask, run before the  *)
(* next task (a network answer, a timer, a click).                         *)

MicrotaskPending ==
    \/ \E c \in DOMAIN gvs : gvs[c].pc = "done"
    \/ sos.pc = "done"
    \/ agentSos.pc = "returned"
    \/ sec.pc = "stored"
    \/ opt.pc = "deposited"

----------------------------------------------------------------------------
(* FraxService.initializeConnection *)

\* provider.getBlockNumber() answers: the connection is live.  The answer
\* is a task of its own: it cannot run between the resolution of a promise
\* and the continuation that awaits it.
InitConnected ==
    /\ initPc = "pending"
    /\ ~MicrotaskPending
    /\ initPc' = "done"
    /\ isConnected' = TRUE
    /\ UNCHANGED <<viewVars, chain, contracts, gvs, sos, state, storage, agentSos,
                   perceive, sec, opt, ui>>

\* provider.getBlockNumber() rejects: fallback mode
InitFailed ==
    /\ initPc = "pending"
    /\ ~MicrotaskPending
    /\ initPc' = "done"
    /\ isConnected' = FALSE
    /\ UNCHANGED <<viewVars, chain, contracts, gvs, sos, state, storage, agentSos,
                   perceive, sec, opt, ui>>

----------------------------------------------------------------------------
(* FraxService.getVaultState: one frame per caller *)

SosCaller  == <<"sos", 0>>
OptCaller  == <<"opt", 0>>
RefreshIds == {<<"refresh", i>> : i \in 1..MaxRefresh}
GvsCallers == {SosCaller, OptCaller} \cup RefreshIds

\* how: the branch the call took ("offline", "live", "failed"); history,
\* read by the properties only
IdleGvs == [pc |-> "idle", bal |-> NoBalances, vs |-> NullVault, how |-> "none"]

\* the call itself, up to its first await
GvsCall ==
    IF isConnected /\ contracts
    THEN [pc |-> "balances", bal |-> NoBalances, vs |-> NullVault, how |-> "live"]
    ELSE [pc |-> "done", bal |-> NoBalances, vs |-> getSimulatedVaultState,
          how |-> "offline"]

\* Promise.all of the three balanceOf calls resolves
GvsBalances(c) ==
    /\ gvs[c].pc = "balances"
    /\ gvs' = [gvs EXCEPT ![c] = [@ EXCEPT !.pc = "convert", !.bal = chain]]
    /\ UNCHANGED <<viewVars, chain, ledgerVars, sos, state, storage, agentSos,
                   perceive, sec, opt, ui>>

\* convertToAssets resolves: the live snapshot is returned
GvsConvert(c) ==
    /\ gvs[c].pc = "convert"
    /\ gvs' = [gvs EXCEPT ![c] =
                 [@ EXCEPT !.pc = "done", !.bal = NoBalances,
                           !.vs = LiveVaultState(gvs[c].bal,
                                     convertToAssets(gvs[c].bal.sFrax))]]
    /\ UNCHANGED <<viewVars, chain, ledgerVars, sos, state, storage, agentSos,
                   perceive, sec, opt, ui>>

\* the catch block returning what had been read before the failure
GvsCatch_partial(f) == LiveVaultState(f.bal, 0)

\* the value getVaultState returns when a live read of frame f throws
GvsCatch(f) == getSimulatedVaultState

\* either read rejects: caught, the simulated snapshot is returned
GvsReadFailed(c) ==
    /\ gvs[c].pc \in {"balances", "convert"}
    /\ gvs' = [gvs EXCEPT ![c] =
                 [@ EXCEPT !.pc = "done", !.bal = NoBalances,
                           !.vs = GvsCatch(gvs[c]), !.how = "failed"]]
    /\ UNCHANGED <<viewVars, chain, ledgerVars, sos, state, storage, agentSos,
                   perceive, sec, opt, ui>>

----------------------------------------------------------------------------
(* FraxService.triggerSOS *)

IdleSOS ==
    [pc |-> "idle", dest |-> "null", vaultState |-> NullVault,
     txHashes |-> <<>>, logs |-> <<>>, result |-> NoResult,
     sent |-> <<>>, receipts |-> <<>>, path |-> <<>>, read |-> "none"]
    \* sent: the transactions this call submitted; receipts: the ones the
    \* chain committed; path: the branch ("live", "sim") each step took;
    \* read: how getVaultState got the snapshot ("offline", "live", "failed").
    \* All four are history, read by the properties only.

\* the transfer amount leaving out the value of the redeemed shares
totalToTransfer_liquid(vaultState) == vaultState.fraxBalance

\* const totalToTransfer = vaultState.sFraxValueInFrax + vaultState.fraxBalance
totalToTransfer(vaultState) == vaultState.sFraxValueInFrax + vaultState.fraxBalance

\* the object returned at the end of the try block
SOSSuccess(f) ==
    [success |-> TRUE,
     liquidatedAmount |-> f.vaultState.sFraxBalance,
     transferredAmount |-> totalToTransfer(f.vaultState),
     destinationAddress |-> f.dest,
     txHashes |-> f.txHashes,
     logs |-> f.logs]

\* the catch block dropping the transaction ids collected so far
SOSFailure_noTx(f, message) ==
    [success |-> FALSE,
     liquidatedAmount |-> 0,
     transferredAmount |-> 0,
     destinationAddress |-> f.dest,
     txHashes |-> <<>>,
     logs |-> Append(f.logs, ErrorLine(message))]

\* the object returned by the catch block
SOSFailure(f, message) ==
    [success |-> FALSE,
     liquidatedAmount |-> 0,
     transferredAmount |-> 0,
     destinationAddress |-> f.dest,
     txHashes |-> f.txHashes,
     logs |-> Append(f.logs, ErrorLine(message))]

\* logs.push('... SOS Protocol Complete'); return {success: true, ...}
SOSComplete(f) ==
    LET g == [f EXCEPT !.logs = Append(@, LogLine("COMPLETE"))]
    IN  [g EXCEPT !.pc = "done", !.result = SOSSuccess(g)]

\* Step 3 up to its first await: the transfer is submitted on a live
\* connection, synthesized otherwise
SOSTransferStep(f) ==
    LET g == [f EXCEPT !.logs = Append(@, LogLine("TRANSFERRING"))]
    IN  IF isConnected /\ contracts
        THEN [g EXCEPT !.pc = "transferSend", !.sent = Append(@, "transfer"),
                       !.path = Append(@, "live")]
        ELSE SOSComplete([g EXCEPT
                 !.path = Append(@, "sim"),
                 !.txHashes = Append(@, FakeTxHash("transfer")),
                 !.logs = Append(@, LogLine("DEMO_TRANSFER_TX"))])

\* Step 2 up to its first await
SOSLiquidateStep(f) ==
    IF f.vaultState.sFraxBalance > 0
    THEN LET g == [f EXCEPT !.logs = Append(@, LogLine("LIQUIDATING"))]
         IN  IF isConnected /\ contracts
             THEN [g EXCEPT !.pc = "redeemSend", !.sent = Append(@, "redeem"),
                            !.path = Append(@, "live")]
             ELSE SOSTransferStep([g EXCEPT
                      !.path = Append(@, "sim"),
                      !.txHashes = Append(@, FakeTxHash("redeem")),
                      !.logs = Append(@, LogLine("DEMO_LIQUIDATION_TX"))])
    ELSE SOSTransferStep(f)

\* the frame of a new call, up to the await of getVaultState
SOSCall(destinationAddress) ==
    [IdleSOS EXCEPT !.pc = "read", !.dest = destinationAddress,
                    !.logs = <<LogLine("INITIATING")>>]

\* getVaultState resolved: Step 1 ends, Step 2 (and maybe Step 3) starts
SOSAfterRead ==
    /\ sos.pc = "read"
    /\ gvs[SosCaller].pc = "done"
    /\ sos' = SOSLiquidateStep([sos EXCEPT
                  !.vaultState = gvs[SosCaller].vs,
                  !.path = <<IF gvs[SosCaller].how = "offline" THEN "sim" ELSE "live">>,
                  !.read = gvs[SosCaller].how,
                  !.logs = Append(@, LogLine("BALANCE"))])
    /\ gvs' = [gvs EXCEPT ![SosCaller] = IdleGvs]
    /\ UNCHANGED <<viewVars, chain, ledgerVars, state, storage, agentSos,
                   perceive, sec, opt, ui>>

\* the redeem not awaited to its confirmation: Step 3 follows the submission
SOSRedeemSent_noWait ==
    /\ sos.pc = "redeemSend"
    /\ sos' = SOSTransferStep(sos)
    /\ UNCHANGED <<viewVars, chain, ledgerVars, gvs, state, storage, agentSos,
                   perceive, sec, opt, ui>>

\* sFraxContract.redeem(...) resolves with the transaction response
SOSRedeemSent ==
    /\ sos.pc = "redeemSend"
    /\ sos' = [sos EXCEPT !.pc = "redeemWait"]
    /\ UNCHANGED <<viewVars, chain, ledgerVars, gvs, state, storage, agentSos,
                   perceive, sec, opt, ui>>

\* redeemTx.wait() resolves: the shares were redeemed on the chain
SOSRedeemConfirmed ==
    /\ sos.pc = "redeemWait"
    /\ chain.sFrax >= sos.vaultState.sFraxBalance
    /\ chain' = [chain EXCEPT
                    !.sFrax = @ - sos.vaultState.sFraxBalance,
                    !.frax  = @ + convertToAssets(sos.vaultState.sFraxBalance)]
    /\ sos' = SOSTransferStep([sos EXCEPT
                  !.txHashes = Append(@, TxHash("redeem")),
                  !.logs = Append(@, LogLine("LIQUIDATION_TX")),
                  !.receipts = Append(@, "redeem")])
    /\ UNCHANGED <<viewVars, ledgerVars, gvs, state, storage, agentSos,
                   perceive, sec, opt, ui>>

\* fraxContract.transfer(...) resolves with the transaction response
SOSTransferSent ==
    /\ sos.pc = "transferSend"
    /\ sos' = [sos EXCEPT !.pc = "transferWait"]
    /\ UNCHANGED <<viewVars, chain, ledgerVars, gvs, state, storage, agentSos,
                   perceive, sec, opt, ui>>

\* tx.wait() resolves: the funds left the wallet
SOSTransferConfirmed ==
    /\ sos.pc = "transferWait"
    /\ chain.frax >= totalToTransfer(sos.vaultState)
    /\ chain' = [chain EXCEPT !.frax = @ - totalToTransfer(sos.vaultState)]
    /\ sos' = SOSComplete([sos EXCEPT
                  !.txHashes = Append(@, TxHash("transfer")),
                  !.logs = Append(@, LogLine("TRANSFER_TX")),
                  !.receipts = Append(@, "transfer")])
    /\ UNCHANGED <<viewVars, ledgerVars, gvs, state, storage, agentSos,
                   perceive, sec, opt, ui>>

\* error.message of the rejection at each await
ErrorMessage(pc) ==
    CASE pc = "redeemSend"   -> "redeem rejected"
      [] pc = "redeemWait"   -> "redeem reverted"
      [] pc = "transferSend" -> "transfer rejected"
      [] pc = "transferWait" -> "transfer reverted"

\* an awaited contract call rejects: the catch block returns
SOSCatch ==
    /\ sos.pc \in {"redeemSend", "redeemWait", "transferSend", "transferWait"}
    /\ sos' = [sos EXCEPT !.pc = "done",
                          !.result = SOSFailure(sos, ErrorMessage(sos.pc))]
    /\ UNCHANGED <<viewVars, chain, ledgerVars, gvs, state, storage, agentSos,
                   perceive, sec, opt, ui>>

----------------------------------------------------------------------------
(* Types of the orchestrator (src/unnamed/part_006) *)

CaseIds == 1..MaxCaseId

\* AthenaCase | null : the absent case is NullCase
NullCase == [caseId |-> 0, depositAddress |-> "", createdAt |-> 0, status |-> "null"]

\* EscapePlan | null : the absent plan is NullPlan.  dependents and
\* hasOwnMoney are history, read by the properties only: the parameters the
\* plan was computed from
NullPlan ==
    [targetAmount |-> 0, currentAmount |-> 0, strategy |-> "null", riskLevel |-> 0,
     dependents |-> 0, hasOwnMoney |-> FALSE]

\* the state built by the constructor and by clearLocalState
EmptyState ==
    [case |-> NullCase, evidence |-> <<>>, escapePlan |-> NullPlan,
     vaultState |-> NullVault]

\* the entry of localStorage under 'athena_agent_state'.  removals is
\* history, read by the properties only: how many removeItem calls were made
\* since the last setItem ("none", "once", "again" for two or more)
NoItem == [present |-> FALSE, value |-> EmptyState, removals |-> "none"]

\* localStorage.setItem('athena_agent_state', JSON.stringify(this.state))
saveState(s) == [present |-> TRUE, value |-> s, removals |-> "none"]

\* this.state after the constructor ran loadState
loadState(item) == IF item.present THEN item.value ELSE EmptyState

\* localStorage.removeItem('athena_agent_state')
removeItem ==
    [present |-> FALSE, value |-> EmptyState,
     removals |-> IF storage.removals = "none" THEN "once" ELSE "again"]

IsEmpty(s) ==
    /\ s.case = NullCase
    /\ s.evidence = <<>>
    /\ s.escapePlan = NullPlan
    /\ s.vaultState = NullVault

----------------------------------------------------------------------------
(* AthenaAgent.createAnonymousCase *)

\* FraxService.getAddress: the wallet's address, or the fixed demo address
getAddress == IF contracts THEN "0xWALLET" ELSE "0xDEMO"

\* id stands for the pair (Date.now(), random suffix) the identifier is
\* built from; createdAt is the same Date.now() value
createAnonymousCase(id) ==
    /\ state' = [state EXCEPT !.case =
                    [caseId |-> id, depositAddress |-> getAddress,
                     createdAt |-> id, status |-> "ACTIVE"]]
    /\ storage' = saveState(state')

CreateCase ==
    /\ \E id \in CaseIds : createAnonymousCase(id)
    /\ UNCHANGED <<viewVars, chain, ledgerVars, gvs, sos, agentSos, perceive, sec, opt, ui>>

----------------------------------------------------------------------------
(* AthenaAgent.calculateFreedomBudget *)

TRANSPORT_PER_PERSON   == 30
EMERGENCY_FOOD         == 100
TEMP_SHELTER_PER_NIGHT == 75

\* riskLevel: z.number().min(1).max(10)
MinRiskLevel == 1
MaxRiskLevel == 10
AllRiskLevels == MinRiskLevel..MaxRiskLevel

RiskLevels == {4, 8}

\* one night only above level 8
NIGHTS_NEEDED_above(riskLevel) == IF riskLevel > 8 THEN 1 ELSE 3

NIGHTS_NEEDED(riskLevel) == IF riskLevel >= 8 THEN 1 ELSE 3

totalTarget(dependents, hasOwnMoney, riskLevel) ==
    LET transportCost == (dependents + 1) * TRANSPORT_PER_PERSON
        shelterCost   == IF hasOwnMoney THEN 0
                         ELSE TEMP_SHELTER_PER_NIGHT * NIGHTS_NEEDED(riskLevel)
    IN  transportCost + EMERGENCY_FOOD + shelterCost

\* the tiers with exclusive lower bounds
strategy_exclusive(riskLevel) ==
    IF riskLevel > 8 THEN "IMMEDIATE"
    ELSE IF riskLevel > 5 THEN "COLLECT_EVIDENCE"
    ELSE "ASSESS"

\* the three strategies, named after the first word of their step1 text:
\* IMMEDIATE (critical), COLLECT_EVIDENCE (elevated), ASSESS (moderate)
strategy(riskLevel) ==
    IF riskLevel >= 8 THEN "IMMEDIATE"
    ELSE IF riskLevel >= 5 THEN "COLLECT_EVIDENCE"
    ELSE "ASSESS"

calculateFreedomBudget(dependents, hasOwnMoney, riskLevel) ==
    [targetAmount  |-> totalTarget(dependents, hasOwnMoney, riskLevel),
     currentAmount |-> state.vaultState.totalValueUsd,
     strategy      |-> strategy(riskLevel),
     riskLevel     |-> riskLevel,
     dependents    |-> dependents,
     hasOwnMoney   |-> hasOwnMoney]

\* a call whose dependents are drawn from D and whose risk level from R
BudgetCall(D, R) ==
    /\ \E dependents \in D, hasOwnMoney \in BOOLEAN, riskLevel \in R :
          state' = [state EXCEPT !.escapePlan =
                       calculateFreedomBudget(dependents, hasOwnMoney, riskLevel)]
    /\ storage' = saveState(state')
    /\ UNCHANGED <<viewVars, chain, ledgerVars, gvs, sos, agentSos, perceive, sec, opt, ui>>

CalculateBudget == BudgetCall(0..MaxDependents, RiskLevels)

\* the call over the whole risk scale
CalculateBudgetAll == BudgetCall(0..MaxPlanDependents, AllRiskLevels)

----------------------------------------------------------------------------
(* AthenaAgent.clearLocalState *)

\* the reset of the in-memory state alone
clearLocalState_memoryOnly ==
    /\ state' = EmptyState
    /\ UNCHANGED storage

clearLocalState ==
    /\ state' = EmptyState
    /\ storage' = removeItem

\* the WIPE command of App.handleCommand, the dashboard's onWipe
Wipe ==
    /\ clearLocalState
    /\ flashMsg' = "CACHE CLEARED"
    /\ UNCHANGED <<hook, pool, chain, ledgerVars, gvs, sos, agentSos, perceive, sec, opt, ui>>

----------------------------------------------------------------------------
(* AthenaAgent.perceiveFinancialState, called by the binding layer: initial *)
(* load, 30 s interval, refreshVaultState, quickBalance                     *)

PerceiveCall(r) ==
    /\ perceive[r] = "idle"
    /\ perceive' = [perceive EXCEPT ![r] = "await"]
    /\ gvs' = [gvs EXCEPT ![r] = GvsCall]
    /\ UNCHANGED <<viewVars, chain, ledgerVars, sos, state, storage, agentSos, sec, opt, ui>>

\* the refresh that rebuilds the state around the snapshot, without the
\* evidence list
perceiveResume_rebuild(vaultState) ==
    /\ state' = [EmptyState EXCEPT !.vaultState = vaultState,
                                   !.case = state.case,
                                   !.escapePlan = state.escapePlan]
    /\ storage' = saveState(state')

\* the lines after the await: this.state.vaultState = vaultState; saveState()
perceiveResume(vaultState) ==
    /\ state' = [state EXCEPT !.vaultState = vaultState]
    /\ storage' = saveState(state')

PerceiveResume(r) ==
    /\ perceive[r] = "await"
    /\ gvs[r].pc = "done"
    /\ perceiveResume(gvs[r].vs)
    /\ perceive' = [perceive EXCEPT ![r] = "idle"]
    /\ gvs' = [gvs EXCEPT ![r] = IdleGvs]
    /\ UNCHANGED <<viewVars, chain, ledgerVars, sos, agentSos, sec, opt, ui>>

----------------------------------------------------------------------------
(* FraxService.storeEvidenceHash and AthenaAgent.secureEvidence *)

\* TransactionResult
TxResult(success, txHash, message) ==
    [success |-> success, txHash |-> txHash, message |-> message]

NoTxResult == TxResult(FALSE, "", <<>>)

\* the texts submitted as evidence, as sequences of characters
Contents == {<<"a">>, <<"b">>}

\* the readings of Date.now()
Times == 0..MaxTime

DigitChars == <<"0", "1", "2", "3", "4", "5", "6", "7", "8", "9">>

\* Number.prototype.toString: the decimal digits of n
RECURSIVE toString(_)
toString(n) ==
    IF n < Len(DigitChars) THEN <<DigitChars[n + 1]>>
    ELSE toString(n \div Len(DigitChars)) \o <<DigitChars[(n % Len(DigitChars)) + 1]>>

\* "0x" + the hex digits of SHA-256(message); SHA-256 is taken to be
\* collision-free, so the digest is written as the message it was made from
generateHash(message) == <<"0x">> \o message

NoHash == <<>>

IdleSec == [pc |-> "idle", message |-> <<>>, hash |-> NoHash, result |-> NoTxResult]

\* secureEvidence up to the await of generateHash: now is the reading of
\* Date.now() in generateHash(content + Date.now().toString())
secureEvidence(content, now) ==
    sec' = [sec EXCEPT !.pc = "hash", !.message = content \o toString(now)]

\* a submission whose content is drawn from C and whose clock reading from
\* T, while the list holds fewer than max records
SubmitEvidence(C, T, max) ==
    /\ sec.pc = "idle"
    /\ Len(state.evidence) < max
    /\ \E content \in C, now \in T : secureEvidence(content, now)
    /\ UNCHANGED <<viewVars, chain, ledgerVars, gvs, sos, state, storage, agentSos,
                   perceive, opt, ui>>

SecureEvidence == SubmitEvidence(Contents, Times, MaxSubmissions)

\* the submission of one given text at one given instant
SecureEvidenceOnce == SubmitEvidence({<<"a">>}, {0}, MaxEvidence)

\* storeEvidenceHash up to its first await
storeEvidenceHash ==
    IF isConnected /\ contracts
    THEN [IdleSec EXCEPT !.pc = "storeSend"]
    ELSE [IdleSec EXCEPT !.pc = "stored", !.result = TxResult(TRUE, "demo", <<"[DEMO] Evidence hash recorded">>)]

\* the digest resolves: the PENDING record is built and the hash is stored
SecHashed ==
    /\ sec.pc = "hash"
    /\ sec' = [storeEvidenceHash EXCEPT !.message = sec.message,
                                        !.hash = generateHash(sec.message)]
    /\ UNCHANGED <<viewVars, chain, ledgerVars, gvs, sos, state, storage, agentSos,
                   perceive, opt, ui>>

\* wallet.sendTransaction resolves
SecStoreSent ==
    /\ sec.pc = "storeSend"
    /\ sec' = [sec EXCEPT !.pc = "storeWait"]
    /\ UNCHANGED <<viewVars, chain, ledgerVars, gvs, sos, state, storage, agentSos,
                   perceive, opt, ui>>

\* tx.wait() resolves
SecStoreConfirmed ==
    /\ sec.pc = "storeWait"
    /\ sec' = [sec EXCEPT !.pc = "stored",
                          !.result = TxResult(TRUE, "tx", <<"Evidence hash stored on-chain">>)]
    /\ UNCHANGED <<viewVars, chain, ledgerVars, gvs, sos, state, storage, agentSos,
                   perceive, opt, ui>>

\* error.message of the rejection at each await of storeEvidenceHash
StoreError(pc) ==
    CASE pc = "storeSend" -> "sendTransaction rejected"
      [] pc = "storeWait" -> "transaction reverted"

\* either await rejects: the catch block of storeEvidenceHash
SecStoreFailed ==
    /\ sec.pc \in {"storeSend", "storeWait"}
    /\ sec' = [sec EXCEPT !.pc = "stored",
                          !.result = TxResult(FALSE, "",
                                        <<"Failed to store evidence", StoreError(sec.pc)>>)]
    /\ UNCHANGED <<viewVars, chain, ledgerVars, gvs, sos, state, storage, agentSos,
                   perceive, opt, ui>>

\* the record marked ON_CHAIN without record.txHash = result.txHash
EvidenceRecord_noTx(hash, result) ==
    IF result.success
    THEN [hash |-> hash, status |-> "ON_CHAIN", txHash |-> ""]
    ELSE [hash |-> hash, status |-> "FAILED", txHash |-> ""]

\* the record after the await of storeEvidenceHash
EvidenceRecord(hash, result) ==
    IF result.success
    THEN [hash |-> hash, status |-> "ON_CHAIN", txHash |-> result.txHash]
    ELSE [hash |-> hash, status |-> "FAILED", txHash |-> ""]

\* the list replaced by the new record instead of the push
SecResume_overwrite ==
    /\ sec.pc = "stored"
    /\ state' = [state EXCEPT !.evidence = <<EvidenceRecord(sec.hash, sec.result)>>]
    /\ storage' = saveState(state')
    /\ sec' = IdleSec
    /\ UNCHANGED <<viewVars, chain, ledgerVars, gvs, sos, agentSos, perceive, opt, ui>>

\* this.state.evidence.push(record); this.saveState()
SecResume ==
    /\ sec.pc = "stored"
    /\ state' = [state EXCEPT !.evidence = Append(@, EvidenceRecord(sec.hash, sec.result))]
    /\ storage' = saveState(state')
    /\ sec' = IdleSec
    /\ UNCHANGED <<viewVars, chain, ledgerVars, gvs, sos, agentSos, perceive, opt, ui>>

----------------------------------------------------------------------------
(* FraxService.depositToVault and AthenaAgent.optimizeYield *)

\* sent: the transactions depositToVault submitted; receipts: the ones the
\* chain committed.  Both are history, read by the properties only.
IdleOpt ==
    [pc |-> "idle", amount |-> 0, result |-> NoTxResult,
     sent |-> <<>>, receipts |-> <<>>]

\* ERC-4626 convertToShares of the vault contract
convertToShares(assets) == assets \div SharePrice

\* optimizeYield up to the await inside perceiveFinancialState
OptimizeYield ==
    /\ opt.pc = "idle"
    /\ opt' = [opt EXCEPT !.pc = "perceive"]
    /\ gvs' = [gvs EXCEPT ![OptCaller] = GvsCall]
    /\ UNCHANGED <<viewVars, chain, ledgerVars, sos, state, storage, agentSos,
                   perceive, sec, ui>>

\* depositToVault up to its first await: approve(...) is called on a live
\* connection, the deposit is simulated otherwise
depositToVault(amountFrax) ==
    IF isConnected /\ contracts
    THEN [IdleOpt EXCEPT !.pc = "approveSend", !.amount = amountFrax,
                         !.sent = <<"approve">>]
    ELSE [IdleOpt EXCEPT !.pc = "deposited", !.amount = amountFrax,
                         !.result = TxResult(TRUE, "demo", <<"[DEMO] Deposited">>)]

\* the first perceive without the check for idle FRAX
OptPerceived_noThreshold ==
    /\ opt.pc = "perceive"
    /\ gvs[OptCaller].pc = "done"
    /\ perceiveResume(gvs[OptCaller].vs)
    /\ opt' = depositToVault(gvs[OptCaller].vs.fraxBalance)
    /\ gvs' = [gvs EXCEPT ![OptCaller] = IdleGvs]
    /\ UNCHANGED <<viewVars, chain, ledgerVars, sos, agentSos, perceive, sec, ui>>

\* the first perceiveFinancialState resolves
OptPerceived ==
    /\ opt.pc = "perceive"
    /\ gvs[OptCaller].pc = "done"
    /\ perceiveResume(gvs[OptCaller].vs)
    /\ opt' = IF gvs[OptCaller].vs.fraxBalance < 1
              THEN IdleOpt
              ELSE depositToVault(gvs[OptCaller].vs.fraxBalance)
    /\ gvs' = [gvs EXCEPT ![OptCaller] = IdleGvs]
    /\ UNCHANGED <<viewVars, chain, ledgerVars, sos, agentSos, perceive, sec, ui>>

\* approve(...), approveTx.wait() and deposit(...) resolve in turn; when the
\* approval is confirmed, deposit(...) is called
OptDepositStep ==
    /\ opt.pc \in {"approveSend", "approveWait", "depositSend"}
    /\ opt' = CASE opt.pc = "approveSend" -> [opt EXCEPT !.pc = "approveWait"]
                 [] opt.pc = "approveWait" ->
                      [opt EXCEPT !.pc = "depositSend",
                                  !.receipts = Append(@, "approve"),
                                  !.sent = Append(@, "deposit")]
                 [] opt.pc = "depositSend" -> [opt EXCEPT !.pc = "depositWait"]
    /\ UNCHANGED <<viewVars, chain, ledgerVars, gvs, sos, state, storage, agentSos,
                   perceive, sec, ui>>

\* depositTx.wait() resolves: the FRAX was staked on the chain
OptDepositConfirmed ==
    /\ opt.pc = "depositWait"
    /\ chain.frax >= opt.amount
    /\ chain' = [chain EXCEPT !.frax  = @ - opt.amount,
                              !.sFrax = @ + convertToShares(opt.amount)]
    /\ opt' = [opt EXCEPT !.pc = "deposited",
                          !.receipts = Append(@, "deposit"),
                          !.result = TxResult(TRUE, "tx", <<"Deposited">>)]
    /\ UNCHANGED <<viewVars, ledgerVars, gvs, sos, state, storage, agentSos,
                   perceive, sec, ui>>

\* error.message of the rejection at each await of depositToVault
DepositError(pc) ==
    CASE pc = "approveSend" -> "approve rejected"
      [] pc = "approveWait" -> "approve reverted"
      [] pc = "depositSend" -> "deposit rejected"
      [] pc = "depositWait" -> "deposit reverted"

\* the catch block reporting the approval and hiding the failure
depositCatch_partial(f) ==
    TxResult(f.receipts # <<>>, IF f.receipts # <<>> THEN "tx" ELSE "",
             <<"Deposit failed", DepositError(f.pc)>>)

\* the object returned by the catch block of depositToVault
depositCatch(f) == TxResult(FALSE, "", <<"Deposit failed", DepositError(f.pc)>>)

\* any await of depositToVault rejects: its catch block
OptDepositFailed ==
    /\ opt.pc \in {"approveSend", "approveWait", "depositSend", "depositWait"}
    /\ opt' = [opt EXCEPT !.pc = "deposited", !.result = depositCatch(opt)]
    /\ UNCHANGED <<viewVars, chain, ledgerVars, gvs, sos, state, storage, agentSos,
                   perceive, sec, ui>>

\* depositToVault resolved: on success the state is perceived again
OptDeposited ==
    /\ opt.pc = "deposited"
    /\ IF opt.result.success
       THEN /\ opt' = [opt EXCEPT !.pc = "perceiveAgain"]
            /\ gvs' = [gvs EXCEPT ![OptCaller] = GvsCall]
       ELSE /\ opt' = IdleOpt
            /\ UNCHANGED gvs
    /\ UNCHANGED <<viewVars, chain, ledgerVars, sos, state, storage, agentSos,
                   perceive, sec, ui>>

\* the second perceiveFinancialState resolves: optimizeYield returns
OptPerceivedAgain ==
    /\ opt.pc = "perceiveAgain"
    /\ gvs[OptCaller].pc = "done"
    /\ perceiveResume(gvs[OptCaller].vs)
    /\ opt' = IdleOpt
    /\ gvs' = [gvs EXCEPT ![OptCaller] = IdleGvs]
    /\ UNCHANGED <<viewVars, chain, ledgerVars, sos, agentSos, perceive, sec, ui>>

----------------------------------------------------------------------------
(* AthenaAgent.triggerSOS, useAthenaAgent.triggerSOS *)

IdleAgentSos == [pc |-> "idle", result |-> NoResult]

\* the status update that also stamps the case anew
markEvacuated_restamp(s) ==
    IF s.case # NullCase
    THEN [s EXCEPT !.case.status = "EVACUATED", !.case.createdAt = 0]
    ELSE s

\* if (this.state.case) this.state.case.status = 'EVACUATED'
markEvacuated(s) ==
    IF s.case # NullCase THEN [s EXCEPT !.case.status = "EVACUATED"] ELSE s

\* AthenaAgent.triggerSOS up to the await of fraxService.triggerSOS, which
\* itself runs up to the await of getVaultState
agentTriggerSOS(safeContactAddress) ==
    /\ state' = markEvacuated(state)
    /\ UNCHANGED storage
    /\ sos' = SOSCall(safeContactAddress)
    /\ gvs' = [gvs EXCEPT ![SosCaller] = GvsCall]
    /\ agentSos' = [pc |-> "await", result |-> NoResult]

\* the wipe done whatever the result
agentSOSResume_always(result) == clearLocalState

\* a failed result rolling the case back to ACTIVE
agentSOSResume_rollback(result) ==
    IF result.success
    THEN clearLocalState
    ELSE /\ state' = IF state.case # NullCase
                     THEN [state EXCEPT !.case.status = "ACTIVE"]
                     ELSE state
         /\ UNCHANGED storage

\* the wipe done only when funds were moved
agentSOSResume_funded(result) ==
    IF result.success /\ result.transferredAmount > 0
    THEN clearLocalState
    ELSE UNCHANGED <<state, storage>>

\* the lines after the await: if (result.success) this.clearLocalState()
agentSOSResume(result) ==
    IF result.success
    THEN clearLocalState
    ELSE UNCHANGED <<state, storage>>

\* fraxService.triggerSOS resolved: AthenaAgent.triggerSOS returns the result
AgentSOSResume ==
    /\ agentSos.pc = "await"
    /\ sos.pc = "done"
    /\ agentSOSResume(sos.result)
    /\ agentSos' = [pc |-> "returned", result |-> sos.result]
    /\ sos' = IdleSOS
    /\ UNCHANGED <<viewVars, chain, ledgerVars, gvs, perceive, sec, opt, ui>>

----------------------------------------------------------------------------
(* PanicButton *)

IdleUI ==
    [status |-> "IDLE", pc |-> "none", result |-> NoResult, logIndex |-> 0,
     finalLine |-> ""]

\* the SOS button starting the protocol without the confirmation view
HandlePanic_direct ==
    /\ ui.status = "IDLE"
    /\ agentSos.pc = "idle"
    /\ sos.pc = "idle"
    /\ ui' = [ui EXCEPT !.status = "EXECUTING", !.pc = "awaitSOS"]
    /\ \E destinationAddress \in Addresses : agentTriggerSOS(destinationAddress)
    /\ UNCHANGED <<viewVars, chain, ledgerVars, perceive, sec, opt>>

\* handlePanic: the SOS button
HandlePanic ==
    /\ ui.status = "IDLE"
    /\ ui' = [ui EXCEPT !.status = "CONFIRMING"]
    /\ UNCHANGED <<viewVars, chain, ledgerVars, gvs, sos, state, storage, agentSos,
                   perceive, sec, opt>>

\* the Cancel button of the CONFIRMING view
CancelPanic ==
    /\ ui.status = "CONFIRMING"
    /\ ui' = [ui EXCEPT !.status = "IDLE"]
    /\ UNCHANGED <<viewVars, chain, ledgerVars, gvs, sos, state, storage, agentSos,
                   perceive, sec, opt>>

\* confirmPanic up to the await of triggerSOS
ConfirmPanic ==
    /\ ui.status = "CONFIRMING"
    /\ agentSos.pc = "idle"
    /\ sos.pc = "idle"
    /\ ui' = [ui EXCEPT !.status = "EXECUTING", !.pc = "awaitSOS"]
    /\ \E destinationAddress \in Addresses : agentTriggerSOS(destinationAddress)
    /\ UNCHANGED <<viewVars, chain, ledgerVars, perceive, sec, opt>>

\* triggerSOS resolved: the interval that streams the logs is started
PanicResume ==
    /\ ui.pc = "awaitSOS"
    /\ agentSos.pc = "returned"
    /\ ui' = [ui EXCEPT !.pc = "stream", !.result = agentSos.result, !.logIndex = 0]
    /\ agentSos' = IdleAgentSos
    /\ UNCHANGED <<viewVars, chain, ledgerVars, gvs, sos, state, storage,
                   perceive, sec, opt>>

\* the final status line added when the stream ends
finalStatus(result) ==
    IF result.success THEN "PROTOCOL COMPLETE" ELSE "Protocol failed"

\* the interval without its final branch: it only streams the log lines
StreamTick_noEnd ==
    /\ ui.pc = "stream"
    /\ ui.logIndex < Len(ui.result.logs)
    /\ ui' = [ui EXCEPT !.logIndex = @ + 1]
    /\ UNCHANGED <<viewVars, chain, ledgerVars, gvs, sos, state, storage, agentSos,
                   perceive, sec, opt>>

\* one tick of the 600 ms interval
StreamTick ==
    /\ ui.pc = "stream"
    /\ ui' = IF ui.logIndex < Len(ui.result.logs)
             THEN [ui EXCEPT !.logIndex = @ + 1]
             ELSE [ui EXCEPT !.pc = "doneTimer", !.finalLine = finalStatus(ui.result)]
    /\ UNCHANGED <<viewVars, chain, ledgerVars, gvs, sos, state, storage, agentSos,
                   perceive, sec, opt>>

\* the 1500 ms timeout: setStatus('DONE')
DoneTimer ==
    /\ ui.pc = "doneTimer"
    /\ ui' = [ui EXCEPT !.status = "DONE", !.pc = "wipeTimer"]
    /\ UNCHANGED <<viewVars, chain, ledgerVars, gvs, sos, state, storage, agentSos,
                   perceive, sec, opt>>

\* the 3000 ms timeout: clearState(); onWipeComplete() -- the dashboard
\* runs the WIPE command (a second clearLocalState on the state just
\* cleared) and returns to the calculator, unmounting the component
WipeTimer ==
    /\ ui.pc = "wipeTimer"
    /\ clearLocalState
    /\ flashMsg' = "CACHE CLEARED"
    /\ ui' = IdleUI
    /\ UNCHANGED <<hook, pool, chain, ledgerVars, gvs, sos, agentSos, perceive, sec, opt>>

\* what the EXECUTING / DONE view shows
render(u) ==
    [spinner        |-> u.status = "EXECUTING",
     executedBanner |-> u.status = "DONE",
     lastLog        |-> u.finalLine]

----------------------------------------------------------------------------
(* App: the flash message shown over the calculator *)

\* flashMsg is null
NoFlash == "none"

----------------------------------------------------------------------------
(* useAthenaAgent: one instance of the hook.  isLoading is its flag; init, *)
(* refresh, sec and opt are its calls in flight (the initial load,         *)
(* refreshVaultState, secureEvidence, optimizeYield).  init, refresh and   *)
(* optRefresh (the refreshVaultState inside optimizeYield) hold the        *)
(* perceiveFinancialState call they await.                                 *)

NoCall == <<"none", 0>>

IdleHook ==
    [mounted |-> FALSE, isLoading |-> FALSE, init |-> NoCall, refresh |-> NoCall,
     sec |-> "idle", opt |-> "idle", optRefresh |-> NoCall]

----------------------------------------------------------------------------
(* AthenaPool: the state after the constructor *)

PoolCaseIds == {"A", "B"}

\* address(0), the deployer, a case owner, a safe contact, a donor
ZeroAddress  == "0x0"
PoolAccounts == {"admin", "owner", "contact", "donor"}

\* cases[caseId] of a caseId never written
NoPoolCase ==
    [owner |-> ZeroAddress, safeContact |-> ZeroAddress, balance |-> 0,
     totalDonations |-> 0, donorCount |-> 0, isActive |-> FALSE, exists |-> FALSE]

\* ether: address(this).balance; donations: donations[caseId][donor];
\* received: the ether each account was sent by the contract; sosBy: the
\* sender of the call that emitted SOSTriggered(caseId).  received and sosBy
\* are history, read by the properties only.  Case.createdAt is left out.
NoSender == "none"

EmptyPool ==
    [admin |-> "admin", ether |-> 0,
     cases |-> [c \in PoolCaseIds |-> NoPoolCase],
     donations |-> [c \in PoolCaseIds |-> [a \in PoolAccounts |-> 0]],
     received |-> [a \in PoolAccounts |-> 0],
     sosBy |-> [c \in PoolCaseIds |-> NoSender]]

----------------------------------------------------------------------------
(* The page is closed or reloaded: every call in flight is lost, the       *)
(* singletons are constructed again and the agent restores its state.      *)

Restart ==
    /\ isConnected' = FALSE
    /\ initPc' = IF contracts THEN "pending" ELSE "none"
    /\ gvs' = [c \in GvsCallers |-> IdleGvs]
    /\ sos' = IdleSOS
    /\ state' = loadState(storage)
    /\ agentSos' = IdleAgentSos
    /\ perceive' = [r \in RefreshIds |-> "idle"]
    /\ sec' = IdleSec
    /\ opt' = IdleOpt
    /\ ui' = IdleUI
    /\ hook' = IdleHook
    /\ flashMsg' = NoFlash
    /\ UNCHANGED <<pool, chain, contracts, storage>>

----------------------------------------------------------------------------

Init ==
    /\ chain \in [sFrax : 0..MaxShares, frax : 0..MaxFrax, usdc : 0..MaxUsdc]
    /\ contracts \in BOOLEAN
    /\ initPc = IF contracts THEN "pending" ELSE "none"
    /\ isConnected = FALSE
    /\ gvs = [c \in GvsCallers |-> IdleGvs]
    /\ sos = IdleSOS
    /\ state = EmptyState
    /\ storage = NoItem
    /\ agentSos = IdleAgentSos
    /\ perceive = [r \in RefreshIds |-> "idle"]
    /\ sec = IdleSec
    /\ opt = IdleOpt
    /\ ui = IdleUI
    /\ hook = IdleHook
    /\ flashMsg = NoFlash
    /\ pool = EmptyPool

\* the SOS path alone: ledger client, orchestrator, panic UI, balance refresh
NextSOS ==
    \/ InitConnected
    \/ InitFailed
    \/ \E c \in GvsCallers : GvsBalances(c)
    \/ \E c \in GvsCallers : GvsConvert(c)
    \/ \E c \in GvsCallers : GvsReadFailed(c)
    \/ SOSAfterRead
    \/ SOSRedeemSent
    \/ SOSRedeemConfirmed
    \/ SOSTransferSent
    \/ SOSTransferConfirmed
    \/ SOSCatch
    \/ AgentSOSResume
    \/ HandlePanic
    \/ CancelPanic
    \/ ConfirmPanic
    \/ PanicResume
    \/ StreamTick
    \/ DoneTimer
    \/ WipeTimer
    \/ \E r \in RefreshIds : PerceiveCall(r)
    \/ \E r \in RefreshIds : PerceiveResume(r)

\* the answers and timers an SOS attempt waits for
SOSProgress ==
    \/ GvsBalances(SosCaller)
    \/ GvsConvert(SosCaller)
    \/ GvsReadFailed(SosCaller)
    \/ SOSAfterRead
    \/ SOSRedeemSent
    \/ SOSRedeemConfirmed
    \/ SOSTransferSent
    \/ SOSTransferConfirmed
    \/ SOSCatch
    \/ AgentSOSResume
    \/ PanicResume
    \/ StreamTick
    \/ DoneTimer

\* every pending ledger call is answered or fails, every pending timer fires
LiveSOS == Init /\ [][NextSOS]_vars /\ WF_vars(SOSProgress)

SpecSOS == Init /\ [][NextSOS]_vars

\* a funded wallet whose key is configured
InitFunded ==
    /\ Init
    /\ contracts
    /\ chain = [sFrax |-> MaxShares, frax |-> MaxFrax, usdc |-> MaxUsdc]

\* the orchestrator's state over SOS attempts and page reloads
NextAgent ==
    \/ InitConnected
    \/ InitFailed
    \/ \E c \in GvsCallers : GvsBalances(c)
    \/ \E c \in GvsCallers : GvsConvert(c)
    \/ \E c \in GvsCallers : GvsReadFailed(c)
    \/ SOSAfterRead
    \/ SOSRedeemSent
    \/ SOSRedeemConfirmed
    \/ SOSTransferSent
    \/ SOSTransferConfirmed
    \/ SOSCatch
    \/ AgentSOSResume
    \/ HandlePanic
    \/ CancelPanic
    \/ ConfirmPanic
    \/ PanicResume
    \/ CreateCase
    \/ CalculateBudget
    \/ Wipe
    \/ SecureEvidenceOnce
    \/ SecHashed
    \/ SecStoreSent
    \/ SecStoreConfirmed
    \/ SecStoreFailed
    \/ SecResume
    \/ Restart

SpecAgent == InitFunded /\ [][NextAgent]_vars

\* no orchestrator call is in flight
Quiescent ==
    /\ agentSos.pc = "idle"
    /\ sec.pc = "idle"
    /\ opt.pc = "idle"
    /\ \A r \in RefreshIds : perceive[r] = "idle"

\* a user who starts an asynchronous operation only when none is in flight
SeqConfirmPanic   == Quiescent /\ ConfirmPanic
SeqPerceiveCall   == Quiescent /\ \E r \in RefreshIds : PerceiveCall(r)
SeqSecureEvidence == Quiescent /\ SecureEvidenceOnce
SeqOptimizeYield  == Quiescent /\ OptimizeYield

\* every operation the orchestrator exposes, started one at a time
NextOps ==
    \/ InitConnected
    \/ InitFailed
    \/ \E c \in GvsCallers : GvsBalances(c)
    \/ \E c \in GvsCallers : GvsConvert(c)
    \/ \E c \in GvsCallers : GvsReadFailed(c)
    \/ SOSAfterRead
    \/ SOSRedeemSent
    \/ SOSRedeemConfirmed
    \/ SOSTransferSent
    \/ SOSTransferConfirmed
    \/ SOSCatch
    \/ AgentSOSResume
    \/ HandlePanic
    \/ CancelPanic
    \/ SeqConfirmPanic
    \/ PanicResume
    \/ CreateCase
    \/ CalculateBudget
    \/ Wipe
    \/ SeqPerceiveCall
    \/ \E r \in RefreshIds : PerceiveResume(r)
    \/ SeqSecureEvidence
    \/ SecHashed
    \/ SecStoreSent
    \/ SecStoreConfirmed
    \/ SecStoreFailed
    \/ SecResume
    \/ SeqOptimizeYield
    \/ OptPerceived
    \/ OptDepositStep
    \/ OptDepositConfirmed
    \/ OptDepositFailed
    \/ OptDeposited
    \/ OptPerceivedAgain

SpecOps == InitFunded /\ [][NextOps]_vars

\* evidence submissions next to balance refreshes and wipes
NextEvidence ==
    \/ InitConnected
    \/ InitFailed
    \/ \E c \in GvsCallers : GvsBalances(c)
    \/ \E c \in GvsCallers : GvsConvert(c)
    \/ \E c \in GvsCallers : GvsReadFailed(c)
    \/ \E r \in RefreshIds : PerceiveCall(r)
    \/ \E r \in RefreshIds : PerceiveResume(r)
    \/ SecureEvidence
    \/ SecHashed
    \/ SecStoreSent
    \/ SecStoreConfirmed
    \/ SecStoreFailed
    \/ SecResume
    \/ Wipe

SpecEvidence == InitFunded /\ [][NextEvidence]_vars

\* budget plans over the whole input range, next to the operations that
\* change the rest of the state
NextBudget ==
    \/ InitConnected
    \/ InitFailed
    \/ \E c \in GvsCallers : GvsBalances(c)
    \/ \E c \in GvsCallers : GvsConvert(c)
    \/ \E c \in GvsCallers : GvsReadFailed(c)
    \/ \E r \in RefreshIds : PerceiveCall(r)
    \/ \E r \in RefreshIds : PerceiveResume(r)
    \/ CreateCase
    \/ CalculateBudgetAll
    \/ Wipe

SpecBudget == InitFunded /\ [][NextBudget]_vars

\* every caller of clearLocalState (the WIPE command, a successful SOS, the
\* panic UI's last timer) next to the operations that fill the state
NextWipe ==
    \/ InitConnected
    \/ InitFailed
    \/ \E c \in GvsCallers : GvsBalances(c)
    \/ \E c \in GvsCallers : GvsConvert(c)
    \/ \E c \in GvsCallers : GvsReadFailed(c)
    \/ SOSAfterRead
    \/ SOSRedeemSent
    \/ SOSRedeemConfirmed
    \/ SOSTransferSent
    \/ SOSTransferConfirmed
    \/ SOSCatch
    \/ AgentSOSResume
    \/ HandlePanic
    \/ CancelPanic
    \/ ConfirmPanic
    \/ PanicResume
    \/ StreamTick
    \/ DoneTimer
    \/ WipeTimer
    \/ SeqPerceiveCall
    \/ \E r \in RefreshIds : PerceiveResume(r)
    \/ CreateCase
    \/ CalculateBudget
    \/ Wipe

SpecWipe == InitFunded /\ [][NextWipe]_vars

----------------------------------------------------------------------------
(* Properties of FraxService.triggerSOS and getVaultState *)

SOSReturned == sos.pc = "done"

\* the rejections the step that ran last can raise
StepErrors(f) ==
    IF f.sent = <<>> THEN {}
    ELSE IF Last(f.sent) = "redeem" THEN {"redeem rejected", "redeem reverted"}
    ELSE {"transfer rejected", "transfer reverted"}

\* C1: a triggerSOS in which a step throws still returns: success=false,
\* liquidatedAmount=0, transferredAmount=0, the input destinationAddress, a
\* last log line carrying the error message, and txHashes holding exactly
\* the ids of the steps that committed before the failure.
C1_FailureResult ==
    (SOSReturned /\ ~sos.result.success) =>
        /\ sos.result.liquidatedAmount = 0
        /\ sos.result.transferredAmount = 0
        /\ sos.result.destinationAddress = sos.dest
        /\ sos.dest \in Addresses
        /\ Last(sos.result.logs).kind = "ERROR"
        /\ Last(sos.result.logs).text \in StepErrors(sos)
        /\ sos.result.txHashes = [i \in 1..Len(sos.receipts) |-> TxHash(sos.receipts[i])]

\* the liquidation committed, the transfer failed, the liquidation id is returned
C1_Witness ==
    /\ SOSReturned
    /\ ~sos.result.success
    /\ sos.receipts = <<"redeem">>
    /\ sos.sent = <<"redeem", "transfer">>
    /\ sos.result.txHashes = <<TxHash("redeem")>>

\* C2: the steps of one triggerSOS are sequential: nothing is submitted
\* while the balance read is in flight, the transfer is submitted only
\* when the liquidation's outcome is known, and never after a liquidation
\* that failed.
C2_Sequential ==
    /\ sos.sent # <<>> =>
          /\ gvs[SosCaller].pc = "idle"
          /\ sos.vaultState # NullVault
    /\ sos.pc \in {"redeemSend", "redeemWait"} => sos.sent = <<"redeem">>
    /\ (\E i \in 1..Len(sos.sent) : sos.sent[i] = "transfer") =>
          /\ sos.pc \notin {"redeemSend", "redeemWait"}
          /\ sos.vaultState.sFraxBalance > 0 =>
                \E j \in 1..Len(sos.txHashes) : sos.txHashes[j].kind = "redeem"
          /\ sos.sent \in {<<"transfer">>, <<"redeem", "transfer">>}
          /\ sos.sent = <<"redeem", "transfer">> => sos.receipts # <<>>
    /\ (SOSReturned /\ sos.sent = <<"redeem">>) =>
          /\ ~sos.result.success
          /\ sos.receipts = <<>>

\* a transfer submitted after a confirmed liquidation
C2_Witness ==
    /\ sos.pc = "transferSend"
    /\ sos.sent = <<"redeem", "transfer">>
    /\ sos.receipts = <<"redeem">>

\* C3: a successful triggerSOS reports transferredAmount = staked value +
\* liquid FRAX of the vault state it read (USDC excluded), liquidatedAmount
\* = the staked shares read, and the input destinationAddress.
C3_Conservation ==
    (SOSReturned /\ sos.result.success) =>
        /\ sos.result.transferredAmount =
              sos.vaultState.sFraxValueInFrax + sos.vaultState.fraxBalance
        /\ sos.result.liquidatedAmount = sos.vaultState.sFraxBalance
        /\ sos.result.destinationAddress = sos.dest
        /\ sos.dest \in Addresses

\* a live success over a wallet holding shares, FRAX and USDC
C3_Witness ==
    /\ SOSReturned
    /\ sos.result.success
    /\ sos.vaultState.sFraxBalance > 0
    /\ sos.vaultState.fraxBalance > 0
    /\ sos.vaultState.usdcBalance > 0
    /\ sos.result.transferredAmount # sos.result.liquidatedAmount
    /\ sos.result.destinationAddress = "0xSAFE"

OfflineRun(f) == \A i \in 1..Len(f.path) : f.path[i] = "sim"

----------------------------------------------------------------------------
(* Properties of the panic UI *)

\* C6: when an SOS attempt finishes, the final view matches the outcome:
\* the success banner is shown exactly when the SOSResult has success=true.
C6_BannerMatchesOutcome ==
    ui.status = "DONE" => (render(ui).executedBanner <=> ui.result.success)

\* C7: after the user confirms, the UI eventually leaves EXECUTING and
\* reaches DONE, whatever the SOS call returns.
C7_ReachesDone == (ui.status = "EXECUTING") ~> (ui.status = "DONE")

\* DONE reached after a failed attempt
C7_Witness ==
    /\ ui.status = "DONE"
    /\ ~ui.result.success
    /\ ui.logIndex = Len(ui.result.logs)

----------------------------------------------------------------------------
(* Properties of the orchestrator *)

AgentSOSCalled   == agentSos.pc = "idle" /\ agentSos'.pc = "await"
AgentSOSReturned == agentSos.pc = "await" /\ agentSos'.pc = "returned"

\* C4: AthenaAgent.triggerSOS wipes iff the ledger result is a success: on
\* success the state is empty and the persisted copy removed when the call
\* returns; on failure the evidence, the plan and the persisted copy are
\* left as they were.
C4_WipeIffSuccess ==
    [][/\ AgentSOSCalled =>
             /\ state'.evidence = state.evidence
             /\ state'.escapePlan = state.escapePlan
             /\ storage' = storage
       /\ AgentSOSReturned =>
             IF agentSos'.result.success
             THEN IsEmpty(state') /\ ~storage'.present
             ELSE /\ state'.evidence = state.evidence
                  /\ state'.escapePlan = state.escapePlan
                  /\ storage' = storage]_vars

\* a failed attempt returned and evidence, plan and persisted copy are there
C4_Witness ==
    /\ agentSos.pc = "returned"
    /\ ~agentSos.result.success
    /\ state.evidence # <<>>
    /\ state.escapePlan # NullPlan
    /\ storage.present

\* C5: while the ledger call of triggerSOS is in flight, the state a
\* restart would restore from local persistence has the case EVACUATED.
C5_EvacuatedPersisted ==
    (agentSos.pc = "await" /\ state.case # NullCase) =>
        loadState(storage).case.status = "EVACUATED"

\* C10 as stated: once EVACUATED, no operation leaves the orchestrator
\* holding an ACTIVE case.
C10_Original ==
    [][state.case.status = "EVACUATED" => state'.case.status # "ACTIVE"]_vars

\* C10 (amended): once the case is EVACUATED, every operation but
\* createCase leaves the case as it is or (a wipe) removes it; only
\* createCase, which replaces the case, yields an ACTIVE one.
C10_OnlyCreateCaseReactivates ==
    [][state.case.status = "EVACUATED" =>
          \/ state'.case = state.case
          \/ state'.case = NullCase
          \/ CreateCase]_vars

\* an EVACUATED case kept after a failed attempt and saved by a later operation
C10_Witness ==
    /\ state.case.status = "EVACUATED"
    /\ agentSos.pc = "idle"
    /\ storage.present
    /\ storage.value.case.status = "EVACUATED"
    /\ state.vaultState # NullVault

----------------------------------------------------------------------------
(* Properties of the orchestrator's state and of its persisted copy *)

Identity(c) ==
    [caseId |-> c.caseId, createdAt |-> c.createdAt,
     depositAddress |-> c.depositAddress]

C12_PersistedTracksMemory ==
    agentSos.pc # "await" =>
        IF storage.present THEN storage.value = state ELSE state = EmptyState

----------------------------------------------------------------------------
(* Properties of secureEvidence *)

\* the step in which secureEvidence returns its record
SecReturned == sec.pc = "stored" /\ sec'.pc = "idle"

\* the step in which a perceiveFinancialState of the binding layer returns
PerceiveReturned(r) == perceive[r] = "await" /\ perceive'[r] = "idle"

\* C13: the step in which secureEvidence returns appends exactly one record
\* and keeps the records before it; the record is FAILED when
\* storeEvidenceHash reported failure and ON_CHAIN when it reported success;
\* no other step of the call adds a record.
C13_AppendOne ==
    [][/\ SecReturned =>
             /\ Len(state'.evidence) = Len(state.evidence) + 1
             /\ SubSeq(state'.evidence, 1, Len(state.evidence)) = state.evidence
             /\ Last(state'.evidence).status =
                    IF sec.result.success THEN "ON_CHAIN" ELSE "FAILED"
             /\ storage'.present
             /\ storage'.value.evidence = state'.evidence
       /\ ~SecReturned =>
             \/ state'.evidence = state.evidence
             \/ state'.evidence = <<>>]_vars

\* a failed storage recorded after a successful one
C13_Witness ==
    /\ sec.pc = "idle"
    /\ Len(state.evidence) = 2
    /\ state.evidence[1].status = "ON_CHAIN"
    /\ state.evidence[2].status = "FAILED"

\* C14: every ON_CHAIN record carries a transaction identifier, and a record
\* kept in the list keeps the status (ON_CHAIN or FAILED) it was stored with.
C14_StatusFinal ==
    [][/\ \A i \in DOMAIN state'.evidence :
             /\ state'.evidence[i].status \in {"ON_CHAIN", "FAILED"}
             /\ state'.evidence[i].status = "ON_CHAIN" => state'.evidence[i].txHash # ""
       /\ \/ state'.evidence = <<>>
          \/ \A i \in DOMAIN state.evidence :
                /\ i \in DOMAIN state'.evidence
                /\ state'.evidence[i].status = state.evidence[i].status]_vars

\* an ON_CHAIN record of a confirmed transaction that outlived a failed SOS
C14_Witness ==
    /\ state.evidence # <<>>
    /\ state.evidence[1].status = "ON_CHAIN"
    /\ state.evidence[1].txHash = "tx"
    /\ state.case.status = "EVACUATED"
    /\ agentSos.pc = "idle"

\* C15: with a submission and a refresh in flight together, the step that
\* completes the submission appends its record and keeps the vault snapshot,
\* the step that completes the refresh installs the snapshot it read and
\* keeps the evidence list, and each saves both parts.
C15_NoLostUpdate ==
    [][/\ SecReturned =>
             /\ state'.evidence =
                    Append(state.evidence, EvidenceRecord(sec.hash, sec.result))
             /\ state'.vaultState = state.vaultState
             /\ storage'.present
             /\ storage'.value.evidence = state'.evidence
             /\ storage'.value.vaultState = state'.vaultState
       /\ \A r \in RefreshIds : PerceiveReturned(r) =>
             /\ state'.vaultState = gvs[r].vs
             /\ state'.evidence = state.evidence
             /\ storage'.present
             /\ storage'.value.evidence = state'.evidence
             /\ storage'.value.vaultState = state'.vaultState]_vars

\* both calls in flight with their ledger answers ready, a record already
\* in the list and the refresh holding a snapshot the state does not have
C15_Witness ==
    /\ sec.pc = "stored"
    /\ state.evidence # <<>>
    /\ \E r \in RefreshIds :
          /\ perceive[r] = "await"
          /\ gvs[r].pc = "done"
          /\ gvs[r].vs # state.vaultState

\* C17: any two records of the evidence list have different hashes.
C17_DistinctHashes ==
    \A i, j \in DOMAIN state.evidence :
        i # j => state.evidence[i].hash # state.evidence[j].hash

----------------------------------------------------------------------------
(* Properties of depositToVault *)

Holds(seq, x) == \E i \in DOMAIN seq : seq[i] = x

\* C16: on a live connection the deposit is submitted only after the
\* approval was confirmed; the result has success=true exactly when both
\* steps were confirmed; when the approval was confirmed and the deposit
\* failed, the one result has success=false, an empty transaction id and
\* the message of the deposit failure.
C16_DepositResult ==
    /\ Holds(opt.sent, "deposit") => Holds(opt.receipts, "approve")
    /\ (opt.pc = "deposited" /\ opt.sent # <<>>) =>
          /\ opt.result.success <=> opt.receipts = <<"approve", "deposit">>
          /\ opt.receipts = <<"approve">> =>
                /\ ~opt.result.success
                /\ opt.result.txHash = ""
                /\ opt.result.message \in
                      {<<"Deposit failed", "deposit rejected">>,
                       <<"Deposit failed", "deposit reverted">>}

\* the approval was confirmed, the deposit failed, one failure is returned
C16_Witness ==
    /\ opt.pc = "deposited"
    /\ opt.sent = <<"approve", "deposit">>
    /\ opt.receipts = <<"approve">>
    /\ ~opt.result.success

----------------------------------------------------------------------------
(* Properties of clearLocalState and calculateFreedomBudget *)

\* the step in which the panic UI's last timer calls clearState
WipeTimerFired == ui.pc = "wipeTimer" /\ ui'.pc # "wipeTimer"

\* a step in which the persisted copy was removed
ItemRemoved == storage'.removals # "none" /\ storage' # storage

C19_BudgetFormula ==
    [][(state'.escapePlan # state.escapePlan /\ state'.escapePlan # NullPlan) =>
          LET p       == state'.escapePlan
              nights  == IF p.riskLevel >= 8 THEN 1 ELSE 3
              shelter == IF p.hasOwnMoney THEN 0 ELSE 75 * nights
          IN  /\ p.targetAmount = (p.dependents + 1) * 30 + 100 + shelter
              /\ state'.case = state.case
              /\ state'.evidence = state.evidence
              /\ state'.vaultState = state.vaultState
              /\ gvs' = gvs
              /\ storage'.present
              /\ storage'.value.escapePlan = p]_vars

\* the plan of dependents=2, hasOwnMoney=false, riskLevel=9: 265
C19_Witness ==
    /\ state.escapePlan.dependents = 2
    /\ ~state.escapePlan.hasOwnMoney
    /\ state.escapePlan.riskLevel = 9
    /\ state.escapePlan.targetAmount = 265
    /\ state.case # NullCase
    /\ state.vaultState # NullVault

\* C20: the strategy of a plan is IMMEDIATE (critical) for riskLevel >= 8,
\* COLLECT_EVIDENCE (elevated) for 5 <= riskLevel < 8 and ASSESS
\* (moderate) for riskLevel < 5.
C20_StrategyTiers ==
    state.escapePlan # NullPlan =>
        LET r == state.escapePlan.riskLevel
            t == state.escapePlan.strategy
        IN  /\ r \in 1..10
            /\ r >= 8 => t = "IMMEDIATE"
            /\ (5 =< r /\ r < 8) => t = "COLLECT_EVIDENCE"
            /\ r < 5 => t = "ASSESS"

\* the plan at the lower bound of the elevated tier
C20_Witness ==
    /\ state.escapePlan.riskLevel = 5
    /\ state.escapePlan.strategy = "COLLECT_EVIDENCE"

----------------------------------------------------------------------------
(* Properties of AthenaAgent.optimizeYield *)

\* optimizeYield next to the balance refreshes, over every wallet
NextYield ==
    \/ InitConnected
    \/ InitFailed
    \/ \E c \in GvsCallers : GvsBalances(c)
    \/ \E c \in GvsCallers : GvsConvert(c)
    \/ \E c \in GvsCallers : GvsReadFailed(c)
    \/ \E r \in RefreshIds : PerceiveCall(r)
    \/ \E r \in RefreshIds : PerceiveResume(r)
    \/ OptimizeYield
    \/ OptPerceived
    \/ OptDepositStep
    \/ OptDepositConfirmed
    \/ OptDepositFailed
    \/ OptDeposited
    \/ OptPerceivedAgain

SpecYield == Init /\ [][NextYield]_vars

\* the positions of optimizeYield inside depositToVault
InDeposit == {"approveSend", "approveWait", "depositSend", "depositWait", "deposited"}

\* depositToVault is called
DepositCalled == opt.pc \notin InDeposit /\ opt'.pc \in InDeposit

\* C21: optimizeYield calls depositToVault only with the balance it has just
\* read, only when that liquid FRAX balance is at least 1, and then with the
\* whole of it; below 1 it returns at once and sends nothing.  It calls
\* depositToVault at most once: after the deposit it only perceives again
\* and returns.
C21_DepositThreshold ==
    [][ /\ DepositCalled =>
             /\ opt.pc = "perceive"
             /\ gvs[OptCaller].vs.fraxBalance >= 1
             /\ opt'.amount = gvs[OptCaller].vs.fraxBalance
        /\ (opt.pc = "perceive" /\ opt'.pc # "perceive") =>
             IF gvs[OptCaller].vs.fraxBalance < 1
             THEN opt' = IdleOpt /\ chain' = chain
             ELSE DepositCalled
        /\ opt.pc \in InDeposit => opt'.pc \in InDeposit \cup {"perceiveAgain", "idle"}
        /\ opt.pc = "perceiveAgain" => opt'.pc \in {"perceiveAgain", "idle"}
        /\ Len(opt'.sent) <= 2 ]_vars

\* the deposit of the whole liquid balance is waiting for its receipt
C21_Witness ==
    /\ opt.pc = "depositWait"
    /\ opt.amount = MaxFrax
    /\ opt.sent = <<"approve", "deposit">>

----------------------------------------------------------------------------
(* Properties of the wipe after an SOS attempt *)

\* C22: an SOS attempt of the panic UI whose result has success = false
\* does not lead to the clearing of the agent's state: when its last timer
\* fires, the in-memory state and the stored item are left as they are.
C22_FailedSOSKeepsState ==
    [][ (WipeTimerFired /\ ~ui.result.success) =>
            /\ state' = state
            /\ storage'.present = storage.present ]_vars

----------------------------------------------------------------------------
(* Properties of the branches of FraxService.triggerSOS *)

\* C24: when the live balance read of a triggerSOS call failed, the call
\* does not return success = true.
C24_FailedReadNoSuccess ==
    (sos.pc = "done" /\ sos.read = "failed") => ~sos.result.success

\* the branch the balance read ended in: the chain's answer or the
\* simulated snapshot
readPath(f) == IF f.read = "live" THEN "live" ELSE "sim"

\* C25: within one triggerSOS call the balance read, the liquidation and the
\* transfer all take the same branch, live or simulated.
C25_OnePath ==
    sos.pc # "idle" =>
        \A i \in 2..Len(sos.path) : sos.path[i] = readPath(sos)

----------------------------------------------------------------------------
(* Properties of an SOS run in fallback mode *)

----------------------------------------------------------------------------
(* The operations around one WIPE command.  The command unmounts the        *)
(* dashboard: the intervals of its hooks are cleared and the user is back  *)
(* at the calculator, so no operation starts after it; the calls already   *)
(* in flight keep running.                                                 *)

Wiped == storage.removals # "none"

\* a click or a timer runs when no continuation is pending
UserTask == ~Wiped /\ ~MicrotaskPending

FirstWipe        == UserTask /\ Wipe
LastCreateCase   == UserTask /\ CreateCase
LastPerceiveCall == UserTask /\ \E r \in RefreshIds : PerceiveCall(r)
LastEvidence     == UserTask /\ SecureEvidenceOnce

NextDurable ==
    \/ InitConnected
    \/ InitFailed
    \/ \E c \in GvsCallers : GvsBalances(c)
    \/ \E c \in GvsCallers : GvsConvert(c)
    \/ \E c \in GvsCallers : GvsReadFailed(c)
    \/ LastCreateCase
    \/ LastPerceiveCall
    \/ \E r \in RefreshIds : PerceiveResume(r)
    \/ LastEvidence
    \/ SecHashed
    \/ SecStoreSent
    \/ SecStoreConfirmed
    \/ SecStoreFailed
    \/ SecResume
    \/ FirstWipe

SpecDurable == InitFunded /\ [][NextDurable]_vars

\* C23: once clearLocalState has run, the stored item stays absent and the
\* evidence list, the plan and the vault snapshot stay empty for as long as
\* the user starts no operation, whatever was in flight at the wipe: no
\* step taken from a wiped state writes any of them.
C23_WipeDurable ==
    [][ Wiped =>
            /\ ~storage'.present
            /\ state'.evidence = <<>>
            /\ state'.escapePlan = NullPlan
            /\ state'.vaultState = NullVault ]_vars
----------------------------------------------------------------------------
(* The commands of the calculator and the panic UI *)

\* App.handleCommand 'SOS' (the calculator's 0/0=): a flash message only
SosCommand ==
    /\ flashMsg' = "ALERT SENT"
    /\ UNCHANGED <<hook, pool, chain, ledgerVars, gvs, sos, state, storage, agentSos,
                   perceive, sec, opt, ui>>

\* the timeout that takes the flash message away
FlashTimeout ==
    /\ flashMsg # NoFlash
    /\ flashMsg' = NoFlash
    /\ UNCHANGED <<hook, pool, chain, ledgerVars, gvs, sos, state, storage, agentSos,
                   perceive, sec, opt, ui>>

NextPanic ==
    \/ InitConnected
    \/ InitFailed
    \/ GvsBalances(SosCaller)
    \/ GvsConvert(SosCaller)
    \/ GvsReadFailed(SosCaller)
    \/ SOSAfterRead
    \/ SOSRedeemSent
    \/ SOSRedeemConfirmed
    \/ SOSTransferSent
    \/ SOSTransferConfirmed
    \/ SOSCatch
    \/ AgentSOSResume
    \/ HandlePanic
    \/ CancelPanic
    \/ ConfirmPanic
    \/ PanicResume
    \/ StreamTick
    \/ DoneTimer
    \/ WipeTimer
    \/ SosCommand
    \/ FlashTimeout

SpecPanic == Init /\ [][NextPanic]_vars

\* FraxService.triggerSOS is called
LedgerSOSCalled == sos.pc = "idle" /\ sos'.pc # "idle"

\* C27: AthenaAgent.triggerSOS is called only by the confirm button of the
\* CONFIRMING view, in the step that moves the panic UI to EXECUTING, and
\* that step calls it once; the SOS button, Cancel and the calculator's SOS
\* command call neither it nor the ledger's triggerSOS, and no call is made
\* while the panic UI is in IDLE, EXECUTING or DONE.
C27_OnlyConfirmInvokes ==
    [][ /\ (AgentSOSCalled \/ LedgerSOSCalled) =>
             /\ ui.status = "CONFIRMING"
             /\ ui'.status = "EXECUTING"
             /\ AgentSOSCalled /\ LedgerSOSCalled
             /\ flashMsg' = flashMsg
        /\ (ui.status = "CONFIRMING" /\ ui'.status = "IDLE") =>
             UNCHANGED <<agentSos, sos, gvs, state, storage>>
        /\ (ui.status = "IDLE" /\ ui'.status = "CONFIRMING") =>
             UNCHANGED <<agentSos, sos, gvs, state, storage>>
        /\ (flashMsg # "ALERT SENT" /\ flashMsg' = "ALERT SENT") =>
             UNCHANGED <<agentSos, sos, gvs, state, storage, ui>> ]_vars

\* the confirmed SOS awaits its balance read while the calculator's SOS
\* command has shown its message
C27_Witness ==
    /\ ui.status = "EXECUTING"
    /\ ui.pc = "awaitSOS"
    /\ agentSos.pc = "await"
    /\ sos.pc = "read"
    /\ flashMsg = "ALERT SENT"

----------------------------------------------------------------------------
(* useAthenaAgent: the calls that set isLoading *)

\* agent.perceiveFinancialState() up to its await, as call r
perceiveFinancialState(r) ==
    /\ perceive[r] = "idle"
    /\ r \notin {hook.init, hook.refresh, hook.optRefresh}
    /\ perceive' = [perceive EXCEPT ![r] = "await"]
    /\ gvs' = [gvs EXCEPT ![r] = GvsCall]

\* the perceiveFinancialState call r awaited by the hook has returned
Returned(r) == r # NoCall /\ perceive[r] = "idle"

\* an agent call has returned and the hook's continuation has not run yet
HookReturnPending ==
    \/ Returned(hook.init)
    \/ Returned(hook.refresh)
    \/ Returned(hook.optRefresh)
    \/ hook.sec = "await" /\ sec.pc = "idle"
    \/ hook.opt = "await" /\ opt.pc = "idle"

\* a click or an effect runs when no continuation is pending
HookTask == ~MicrotaskPending /\ ~HookReturnPending

\* the component mounts: the effect of the initial load runs init()
HookMount ==
    /\ ~hook.mounted
    /\ HookTask
    /\ \E r \in RefreshIds :
          /\ perceiveFinancialState(r)
          /\ hook' = [hook EXCEPT !.mounted = TRUE, !.isLoading = TRUE, !.init = r]
    /\ UNCHANGED <<flashMsg, pool, chain, ledgerVars, sos, state, storage, agentSos,
                   sec, opt, ui>>

\* the initial load: finally { setIsLoading(false) }
HookInitReturn ==
    /\ Returned(hook.init)
    /\ hook' = [hook EXCEPT !.isLoading = FALSE, !.init = NoCall]
    /\ UNCHANGED <<flashMsg, pool, chain, ledgerVars, gvs, sos, state, storage, agentSos,
                   perceive, sec, opt, ui>>

\* refreshVaultState, called by the dashboard's refresh button, which is
\* disabled while isLoading
HookRefresh ==
    /\ hook.mounted
    /\ HookTask
    /\ ~hook.isLoading
    /\ hook.refresh = NoCall
    /\ \E r \in RefreshIds :
          /\ perceiveFinancialState(r)
          /\ hook' = [hook EXCEPT !.isLoading = TRUE, !.refresh = r]
    /\ UNCHANGED <<flashMsg, pool, chain, ledgerVars, sos, state, storage, agentSos,
                   sec, opt, ui>>

\* refreshVaultState: finally { setIsLoading(false) }
HookRefreshReturn ==
    /\ Returned(hook.refresh)
    /\ hook' = [hook EXCEPT !.isLoading = FALSE, !.refresh = NoCall]
    /\ UNCHANGED <<flashMsg, pool, chain, ledgerVars, gvs, sos, state, storage, agentSos,
                   perceive, sec, opt, ui>>

\* secureEvidence of the hook up to the await inside agent.secureEvidence
HookSecureEvidence ==
    /\ hook.mounted
    /\ HookTask
    /\ hook.sec = "idle"
    /\ sec.pc = "idle"
    /\ Len(state.evidence) < MaxEvidence
    /\ secureEvidence(<<"a">>, 0)
    /\ hook' = [hook EXCEPT !.isLoading = TRUE, !.sec = "await"]
    /\ UNCHANGED <<flashMsg, pool, chain, ledgerVars, gvs, sos, state, storage, agentSos,
                   perceive, opt, ui>>

\* secureEvidence: finally { setIsLoading(false) }
HookSecReturn ==
    /\ hook.sec = "await"
    /\ sec.pc = "idle"
    /\ hook' = [hook EXCEPT !.isLoading = FALSE, !.sec = "idle"]
    /\ UNCHANGED <<flashMsg, pool, chain, ledgerVars, gvs, sos, state, storage, agentSos,
                   perceive, sec, opt, ui>>

\* optimizeYield of the hook up to the await inside agent.optimizeYield
HookOptimizeYield ==
    /\ hook.mounted
    /\ HookTask
    /\ hook.opt = "idle"
    /\ opt.pc = "idle"
    /\ opt' = [opt EXCEPT !.pc = "perceive"]
    /\ gvs' = [gvs EXCEPT ![OptCaller] = GvsCall]
    /\ hook' = [hook EXCEPT !.isLoading = TRUE, !.opt = "await"]
    /\ UNCHANGED <<flashMsg, pool, chain, ledgerVars, sos, state, storage, agentSos,
                   perceive, sec, ui>>

\* agent.optimizeYield() resolved: await refreshVaultState()
HookOptRefresh ==
    /\ hook.opt = "await"
    /\ opt.pc = "idle"
    /\ \E r \in RefreshIds :
          /\ perceiveFinancialState(r)
          /\ hook' = [hook EXCEPT !.isLoading = TRUE, !.opt = "refresh", !.optRefresh = r]
    /\ UNCHANGED <<flashMsg, pool, chain, ledgerVars, sos, state, storage, agentSos,
                   sec, opt, ui>>

\* the inner refreshVaultState and then optimizeYield run their finally
HookOptReturn ==
    /\ hook.opt = "refresh"
    /\ Returned(hook.optRefresh)
    /\ hook' = [hook EXCEPT !.isLoading = FALSE, !.opt = "idle", !.optRefresh = NoCall]
    /\ UNCHANGED <<flashMsg, pool, chain, ledgerVars, gvs, sos, state, storage, agentSos,
                   perceive, sec, opt, ui>>

NextHook ==
    \/ InitConnected
    \/ InitFailed
    \/ \E c \in GvsCallers : GvsBalances(c)
    \/ \E c \in GvsCallers : GvsConvert(c)
    \/ \E c \in GvsCallers : GvsReadFailed(c)
    \/ \E r \in RefreshIds : PerceiveResume(r)
    \/ SecHashed
    \/ SecStoreSent
    \/ SecStoreConfirmed
    \/ SecStoreFailed
    \/ SecResume
    \/ OptPerceived
    \/ OptDepositStep
    \/ OptDepositConfirmed
    \/ OptDepositFailed
    \/ OptDeposited
    \/ OptPerceivedAgain
    \/ HookMount
    \/ HookInitReturn
    \/ HookRefresh
    \/ HookRefreshReturn
    \/ HookSecureEvidence
    \/ HookSecReturn
    \/ HookOptimizeYield
    \/ HookOptRefresh
    \/ HookOptReturn

SpecHook == InitFunded /\ [][NextHook]_vars

\* one of the hook's loading-tracked calls has not completed
HookInFlight ==
    \/ hook.init # NoCall
    \/ hook.refresh # NoCall
    \/ hook.sec # "idle"
    \/ hook.opt # "idle"

\* C28: isLoading is true exactly while at least one of the initial load,
\* refreshVaultState, secureEvidence and optimizeYield of the hook is in
\* flight, overlapping calls included.
C28_LoadingTracksCalls == hook.isLoading <=> HookInFlight

----------------------------------------------------------------------------
(* AthenaPool (src/unnamed/part_000).  A call that reverts changes nothing *)
(* and is no step; a call that succeeds is one step.                       *)

RECURSIVE SumOver(_, _)
SumOver(f, S) ==
    IF S = {} THEN 0
    ELSE LET x == CHOOSE y \in S : TRUE IN f[x] + SumOver(f, S \ {x})

\* the ether sent to the contract so far
EtherIn == pool.ether + SumOver(pool.received, PoolAccounts)

\* msg.value of a payable call
Values == 1..(MaxEther - EtherIn)

\* modifier onlyCaseOwner
onlyCaseOwner(sender, caseId) ==
    pool.cases[caseId].owner = sender \/ pool.admin = sender

\* payable(to).transfer(amount): reverts when the contract holds less
transfer(p, to, amount) ==
    [p EXCEPT !.ether = @ - amount, !.received[to] = @ + amount]

poolCreateCase(sender, caseId, owner, safeContact) ==
    /\ sender = pool.admin
    /\ ~pool.cases[caseId].exists
    /\ owner # ZeroAddress
    /\ pool' = [pool EXCEPT ![ "cases" ][caseId] =
                   [owner |-> owner, safeContact |-> safeContact, balance |-> 0,
                    totalDonations |-> 0, donorCount |-> 0, isActive |-> TRUE,
                    exists |-> TRUE]]

donate(sender, caseId, value) ==
    /\ pool.cases[caseId].exists
    /\ pool.cases[caseId].isActive
    /\ value > 0
    /\ pool' = [pool EXCEPT
                   !.ether = @ + value,
                   !.cases[caseId].donorCount =
                       IF pool.donations[caseId][sender] = 0 THEN @ + 1 ELSE @,
                   !.donations[caseId][sender] = @ + value,
                   !.cases[caseId].balance = @ + value,
                   !.cases[caseId].totalDonations = @ + value]

\* the withdrawal that pays without debiting the case
withdraw_noDebit(sender, caseId, amount) ==
    /\ pool.cases[caseId].exists
    /\ onlyCaseOwner(sender, caseId)
    /\ amount <= pool.cases[caseId].balance
    /\ amount <= pool.ether
    /\ pool' = transfer(pool, pool.cases[caseId].owner, amount)

withdraw(sender, caseId, amount) ==
    /\ pool.cases[caseId].exists
    /\ onlyCaseOwner(sender, caseId)
    /\ amount <= pool.cases[caseId].balance
    /\ amount <= pool.ether
    /\ pool' = transfer([pool EXCEPT !.cases[caseId].balance = @ - amount],
                        pool.cases[caseId].owner, amount)

\* the SOS that leaves the case open to donations
poolTriggerSOS_keepActive(sender, caseId) ==
    LET c == pool.cases[caseId] IN
    /\ c.exists
    /\ onlyCaseOwner(sender, caseId)
    /\ c.safeContact # ZeroAddress
    /\ c.balance > 0
    /\ c.balance <= pool.ether
    /\ pool' = transfer([pool EXCEPT !.cases[caseId].balance = 0,
                                     !.sosBy[caseId] = sender],
                        c.safeContact, c.balance)

\* AthenaPool.triggerSOS
poolTriggerSOS(sender, caseId) ==
    LET c == pool.cases[caseId] IN
    /\ c.exists
    /\ onlyCaseOwner(sender, caseId)
    /\ c.safeContact # ZeroAddress
    /\ c.balance > 0
    /\ c.balance <= pool.ether
    /\ pool' = transfer([pool EXCEPT !.cases[caseId].balance = 0,
                                     !.cases[caseId].isActive = FALSE,
                                     !.sosBy[caseId] = sender],
                        c.safeContact, c.balance)

setSafeContact(sender, caseId, newContact) ==
    /\ pool.cases[caseId].exists
    /\ onlyCaseOwner(sender, caseId)
    /\ newContact # ZeroAddress
    /\ pool' = [pool EXCEPT !.cases[caseId].safeContact = newContact]

updateCaseOwner(sender, caseId, newOwner) ==
    /\ sender = pool.admin
    /\ pool.cases[caseId].exists
    /\ newOwner # ZeroAddress
    /\ pool' = [pool EXCEPT !.cases[caseId].owner = newOwner]

\* receive() external payable {}
receive(value) == pool' = [pool EXCEPT !.ether = @ + value]

\* the variables outside the contract
appVars == <<chain, isConnected, contracts, initPc, gvs, sos, state, storage,
             agentSos, perceive, sec, opt, ui, hook, flashMsg>>

\* the addresses a case is created or updated with
Owners       == {ZeroAddress, "owner", "contact"}
SafeContacts == {ZeroAddress, "contact"}

PoolCreateCase ==
    /\ \E sender \in PoolAccounts, caseId \in PoolCaseIds, owner \in Owners,
          safeContact \in SafeContacts :
          poolCreateCase(sender, caseId, owner, safeContact)
    /\ UNCHANGED appVars

PoolDonate ==
    /\ \E sender \in PoolAccounts, caseId \in PoolCaseIds, value \in Values :
          donate(sender, caseId, value)
    /\ UNCHANGED appVars

PoolWithdraw ==
    /\ \E sender \in PoolAccounts, caseId \in PoolCaseIds, amount \in 0..MaxEther :
          withdraw(sender, caseId, amount)
    /\ UNCHANGED appVars

PoolTriggerSOS ==
    /\ \E sender \in PoolAccounts, caseId \in PoolCaseIds :
          poolTriggerSOS(sender, caseId)
    /\ UNCHANGED appVars

PoolSetSafeContact ==
    /\ \E sender \in PoolAccounts, caseId \in PoolCaseIds, newContact \in SafeContacts :
          setSafeContact(sender, caseId, newContact)
    /\ UNCHANGED appVars

PoolUpdateCaseOwner ==
    /\ \E sender \in PoolAccounts, caseId \in PoolCaseIds, newOwner \in Owners :
          updateCaseOwner(sender, caseId, newOwner)
    /\ UNCHANGED appVars

PoolReceive ==
    /\ \E value \in Values : receive(value)
    /\ UNCHANGED appVars

NextPool ==
    \/ PoolCreateCase
    \/ PoolDonate
    \/ PoolWithdraw
    \/ PoolTriggerSOS
    \/ PoolSetSafeContact
    \/ PoolUpdateCaseOwner
    \/ PoolReceive

SpecPool == InitFunded /\ [][NextPool]_vars

\* the balances of the cases
CaseBalances(p) == [c \in PoolCaseIds |-> p.cases[c].balance]

\* triggerSOS(caseId) succeeds in this step
SOSTriggered(caseId) == pool.sosBy[caseId] # pool'.sosBy[caseId]

\* C29: a successful AthenaPool.triggerSOS(caseId) is called by the case
\* owner or the admin on an existing case with a safe contact and a positive
\* balance; it sends exactly that balance to the safe contact, sets the case
\* balance to 0, deactivates the case and leaves every other case as it
\* was.  From then on the case stays inactive and no donation to it
\* succeeds: its balance stays 0 and its donations stay as they were.
C29_SOSPaysSafeContact ==
    [][ \A caseId \in PoolCaseIds :
          LET c == pool.cases[caseId] IN
          /\ SOSTriggered(caseId) =>
               /\ c.exists
               /\ pool'.sosBy[caseId] \in {c.owner, pool.admin}
               /\ c.safeContact # ZeroAddress
               /\ c.balance > 0
               /\ pool'.received =
                     [pool.received EXCEPT ![c.safeContact] = @ + c.balance]
               /\ pool'.ether = pool.ether - c.balance
               /\ pool'.cases[caseId].balance = 0
               /\ ~pool'.cases[caseId].isActive
               /\ \A other \in PoolCaseIds \ {caseId} :
                     pool'.cases[other] = pool.cases[other]
          /\ pool.sosBy[caseId] # NoSender =>
               /\ ~pool'.cases[caseId].isActive
               /\ pool'.cases[caseId].balance = 0
               /\ pool'.donations[caseId] = pool.donations[caseId]
               /\ pool'.sosBy[caseId] = pool.sosBy[caseId] ]_vars

\* an SOS by the case owner has paid the safe contact while the other case
\* still holds its donation
C29_Witness ==
    /\ pool.sosBy["A"] = "owner"
    /\ pool.received["contact"] > 0
    /\ pool.cases["A"].balance = 0
    /\ ~pool.cases["A"].isActive
    /\ pool.cases["B"].balance > 0

\* C30: the case balances add up to at most the ether the contract holds.
C30_BalancesCovered == SumOver(CaseBalances(pool), PoolCaseIds) <= pool.ether

\* after donations, a withdrawal, an SOS and a direct receipt the contract
\* holds more ether than the cases' balances
C30_Witness ==
    /\ SumOver(CaseBalances(pool), PoolCaseIds) > 0
    /\ pool.ether > SumOver(CaseBalances(pool), PoolCaseIds)
    /\ SumOver(pool.received, PoolAccounts) > 0

====
